---------------------------- MODULE Spec2Model ----------------------------
(***************************************************************************)
(* Model of the two programs of the repository:                            *)
(*   - the /predict endpoint of src/phi-3-sidecar/model_api.py (Spec),     *)
(*   - the provisioning routine create_agents of setup_agents.py           *)
(*     (SpecAgents).                                                       *)
(***************************************************************************)
EXTENDS Integers, Sequences, FiniteSets, TLC

(***************************************************************************)
(* Bounds and program constants                                            *)
(***************************************************************************)
\* params.set_search_options(max_length=300)
max_length == 300
\* Largest number of tokens a request of the model may still generate.
MaxNew == 2

\* The concurrent /predict requests of the model.
Requests == {1, 2}

\* Token kinds the generator may produce: a token that is a whole character,
\* the lead byte and the continuation byte of a character split over two
\* byte tokens, and the end-of-sequence token.
Tokens == {"a", "L", "C", "eos"}

\* Lengths tokenizer.encode may return for a prompt (the prompt's content is
\* opaque; only its length reaches the generator).
InputLengths == {max_length - MaxNew, max_length}

\* Texts of the exceptions the inference runtime may raise.
ErrorTexts == {"tokenizer failure", "runtime failure"}

NoToken == "none"
NoError == [text |-> "", at |-> "none"]

VARIABLES
    \* ---- model_api.py ----
    tokenizer_stream,   \* module-level stream decoder: its undecoded bytes
    pc,                 \* per request: position of predict / its stream
    prompt,             \* per request: has the prompt string been built
    input_tokens,       \* per request: length of tokenizer.encode(prompt)
    generator,          \* per request: og.Generator [len, done, out]
    new_token,          \* per request: token between the two decode calls
    generated_text,     \* per request: local of token_generator
    fragments,          \* per request: fragments yielded to the transport
    status,             \* per request: HTTP status sent (0: none yet)
    detail,             \* per request: detail of the HTTPException
    err,                \* per request: the exception raised, and where
    \* ---- setup_agents.py ----
    service,            \* agents held by the agent service: [id, name, tools]
    nextId,             \* the id the service gives the next agent it creates
    apc,                \* position of create_agents
    runs,               \* how many runs of create_agents were started
    existing_agents,    \* this run: the list built from list_agents()
    delIdx,             \* this run: how many of existing_agents were visited
    delLog,             \* this run: ids delete_agent was called with, in order
    delFailed,          \* this run: ids whose delete_agent raised
    listFailed,         \* this run: list_agents() raised
    created_agents,     \* this run: key -> id of the agent created (0: none)
    agent_ids,          \* this run: key -> id, the value returned
    createLog,          \* this run: the create_agent calls made, in order
    abortCause          \* this run: what made the run raise ("" : nothing)

predictVars == <<tokenizer_stream, pc, prompt, input_tokens, generator,
                 new_token, generated_text, fragments, status, detail, err>>

agentVars == <<service, nextId, apc, runs, existing_agents, delIdx, delLog, delFailed,
               listFailed, created_agents, agent_ids, createLog, abortCause>>

vars == <<predictVars, agentVars>>

(***************************************************************************)
(* The stream decoder (tokenizer_stream.decode): bytes are buffered until  *)
(* they make whole characters; a chunk that is no character is dropped.    *)
(***************************************************************************)
UTF8Len(b) == IF b = "L" THEN 2 ELSE 1

ChunkText(chunk) ==
    IF chunk = <<"a">> THEN <<"a">>
    ELSE IF chunk = <<"L", "C">> THEN <<"e_acute">>
    ELSE <<>>

RECURSIVE Flush(_)
Flush(buf) ==
    IF buf = <<>> THEN [out |-> <<>>, rest |-> <<>>]
    ELSE LET n == UTF8Len(Head(buf)) IN
         IF n <= Len(buf)
         THEN LET r == Flush(SubSeq(buf, n + 1, Len(buf))) IN
              [out |-> ChunkText(SubSeq(buf, 1, n)) \o r.out, rest |-> r.rest]
         ELSE [out |-> <<>>, rest |-> buf]

\* tokenizer_stream.decode(tok) on a decoder holding `state`:
\* the text returned (out) and the decoder's state afterwards (rest).
StreamDecode(state, tok) == Flush(state \o <<tok>>)

\* A one-pass decode of a token sequence by a fresh stream decoder.
RECURSIVE OnePassFrom(_, _)
OnePassFrom(state, toks) ==
    IF toks = <<>> THEN <<>>
    ELSE LET d == StreamDecode(state, Head(toks)) IN
         d.out \o OnePassFrom(d.rest, Tail(toks))

OnePass(toks) == OnePassFrom(<<>>, toks)

RECURSIVE Concat(_)
Concat(frags) == IF frags = <<>> THEN <<>> ELSE Head(frags) \o Concat(Tail(frags))

(***************************************************************************)
(* predict                                                                 *)
(***************************************************************************)
NoGenerator == [len |-> 0, done |-> TRUE, out |-> <<>>]

PredictInit ==
    /\ tokenizer_stream = <<>>
    /\ pc = [r \in Requests |-> "RECEIVED"]
    /\ prompt = [r \in Requests |-> FALSE]
    /\ input_tokens = [r \in Requests |-> 0]
    /\ generator = [r \in Requests |-> NoGenerator]
    /\ new_token = [r \in Requests |-> NoToken]
    /\ generated_text = [r \in Requests |-> <<>>]
    /\ fragments = [r \in Requests |-> <<>>]
    /\ status = [r \in Requests |-> 0]
    /\ detail = [r \in Requests |-> ""]
    /\ err = [r \in Requests |-> NoError]

\* except Exception as e: raise HTTPException(status_code=500, detail=str(e))
HTTPException500Generic(r, e) ==
    /\ status' = [status EXCEPT ![r] = 500]
    /\ detail' = [detail EXCEPT ![r] = "Internal Server Error"]

HTTPException500(r, e) ==
    /\ status' = [status EXCEPT ![r] = 500]
    /\ detail' = [detail EXCEPT ![r] = e]

\* is_done() after generate_next_token appended tok to a sequence now len long
IsDone(len, tok) == tok = "eos" \/ len >= max_length

\* chat_template.format(input=...): cannot fail, consumes nothing shared
BuildPrompt(r) ==
    /\ pc[r] = "RECEIVED"
    /\ pc' = [pc EXCEPT ![r] = "PROMPT_BUILT"]
    /\ prompt' = [prompt EXCEPT ![r] = TRUE]
    /\ UNCHANGED <<tokenizer_stream, input_tokens, generator, new_token,
                   generated_text, fragments, status, detail, err>>
    /\ UNCHANGED agentVars

\* input_tokens = tokenizer.encode(prompt)
Encode(r) ==
    /\ pc[r] = "PROMPT_BUILT"
    /\ \E n \in InputLengths :
          /\ input_tokens' = [input_tokens EXCEPT ![r] = n]
          /\ pc' = [pc EXCEPT ![r] = "TOKENIZED"]
    /\ UNCHANGED <<tokenizer_stream, prompt, generator, new_token,
                   generated_text, fragments, status, detail, err>>
    /\ UNCHANGED agentVars

\* the failure of tokenizer.encode is swallowed and the stream is started
EncodeFailSwallowed(r) ==
    /\ pc[r] = "PROMPT_BUILT"
    /\ \E e \in ErrorTexts :
          err' = [err EXCEPT ![r] = [text |-> e, at |-> "encode"]]
    /\ generator' = [generator EXCEPT
                       ![r] = [len |-> 0, done |-> FALSE, out |-> <<>>]]
    /\ status' = [status EXCEPT ![r] = 200]
    /\ pc' = [pc EXCEPT ![r] = "GENERATING"]
    /\ UNCHANGED <<tokenizer_stream, prompt, input_tokens, new_token,
                   generated_text, fragments, detail>>
    /\ UNCHANGED agentVars

\* tokenizer.encode raises: caught by predict's except clause
EncodeFail(r) ==
    /\ pc[r] = "PROMPT_BUILT"
    /\ \E e \in ErrorTexts :
          /\ err' = [err EXCEPT ![r] = [text |-> e, at |-> "encode"]]
          /\ HTTPException500(r, e)
    /\ pc' = [pc EXCEPT ![r] = "FAILED"]
    /\ UNCHANGED <<tokenizer_stream, prompt, input_tokens, generator,
                   new_token, generated_text, fragments>>
    /\ UNCHANGED agentVars

\* GeneratorParams, set_search_options, og.Generator succeed; predict returns
\* the StreamingResponse, whose 200 start is sent before the body is iterated
StartStream(r) ==
    /\ pc[r] = "TOKENIZED"
    /\ input_tokens[r] < max_length
    /\ generator' = [generator EXCEPT
                       ![r] = [len |-> input_tokens[r], done |-> FALSE, out |-> <<>>]]
    /\ status' = [status EXCEPT ![r] = 200]
    /\ pc' = [pc EXCEPT ![r] = "GENERATING"]
    /\ UNCHANGED <<tokenizer_stream, prompt, input_tokens, new_token,
                   generated_text, fragments, detail, err>>
    /\ UNCHANGED agentVars

\* GeneratorParams / og.Generator raise (always so when the prompt already
\* fills max_length): caught by predict's except clause
SetupFail(r) ==
    /\ pc[r] = "TOKENIZED"
    /\ \E e \in ErrorTexts :
          /\ err' = [err EXCEPT ![r] = [text |-> e, at |-> "setup"]]
          /\ HTTPException500(r, e)
    /\ pc' = [pc EXCEPT ![r] = "FAILED"]
    /\ UNCHANGED <<tokenizer_stream, prompt, input_tokens, generator,
                   new_token, generated_text, fragments>>
    /\ UNCHANGED agentVars

\* while not generator.is_done(): false, the generator function returns
Finish(r) ==
    /\ pc[r] = "GENERATING"
    /\ new_token[r] = NoToken
    /\ generator[r].done
    /\ pc' = [pc EXCEPT ![r] = "COMPLETED"]
    /\ UNCHANGED <<tokenizer_stream, prompt, input_tokens, generator, new_token,
                   generated_text, fragments, status, detail, err>>
    /\ UNCHANGED agentVars

\* An exception inside token_generator: predict has returned, its except
\* clause is out of scope; the started response is cut
StreamAbort(r, e) ==
    /\ err' = [err EXCEPT ![r] = [text |-> e, at |-> "loop"]]
    /\ pc' = [pc EXCEPT ![r] = "FAILED"]
    /\ UNCHANGED <<status, detail>>

\* compute_logits(); generate_next_token(); get_next_tokens()[0];
\* generated_text += tokenizer_stream.decode(new_token)
Generate(r) ==
    /\ pc[r] = "GENERATING"
    /\ new_token[r] = NoToken
    /\ ~generator[r].done
    /\ \E tok \in Tokens :
          LET g == generator[r]
              d == StreamDecode(tokenizer_stream, tok) IN
          /\ generator' = [generator EXCEPT
                             ![r] = [len |-> g.len + 1,
                                     done |-> IsDone(g.len + 1, tok),
                                     out |-> Append(g.out, tok)]]
          /\ tokenizer_stream' = d.rest
          /\ generated_text' = [generated_text EXCEPT ![r] = @ \o d.out]
          /\ new_token' = [new_token EXCEPT ![r] = tok]
    /\ UNCHANGED <<pc, prompt, input_tokens, fragments, status, detail, err>>
    /\ UNCHANGED agentVars

\* compute_logits() or generate_next_token() raises: no token was produced
GenerateFail(r) ==
    /\ pc[r] = "GENERATING"
    /\ new_token[r] = NoToken
    /\ ~generator[r].done
    /\ \E e \in ErrorTexts : StreamAbort(r, e)
    /\ UNCHANGED <<tokenizer_stream, prompt, input_tokens, generator,
                   new_token, generated_text, fragments>>
    /\ UNCHANGED agentVars

\* the token was produced, get_next_tokens() or the first decode raises
DecodeFail(r) ==
    /\ pc[r] = "GENERATING"
    /\ new_token[r] = NoToken
    /\ ~generator[r].done
    /\ \E tok \in Tokens :
          LET g == generator[r] IN
          generator' = [generator EXCEPT
                          ![r] = [len |-> g.len + 1,
                                  done |-> IsDone(g.len + 1, tok),
                                  out |-> Append(g.out, tok)]]
    /\ \E e \in ErrorTexts : StreamAbort(r, e)
    /\ UNCHANGED <<tokenizer_stream, prompt, input_tokens,
                   new_token, generated_text, fragments>>
    /\ UNCHANGED agentVars

\* the fragment is yielded only when the decoder returned some text
YieldNonEmpty(r) ==
    /\ pc[r] = "GENERATING"
    /\ new_token[r] # NoToken
    /\ LET d == StreamDecode(tokenizer_stream, new_token[r]) IN
          /\ tokenizer_stream' = d.rest
          /\ fragments' = [fragments EXCEPT
                             ![r] = IF d.out = <<>> THEN @ ELSE Append(@, d.out)]
    /\ new_token' = [new_token EXCEPT ![r] = NoToken]
    /\ UNCHANGED <<pc, prompt, input_tokens, generator, generated_text,
                   status, detail, err>>
    /\ UNCHANGED agentVars

\* yield tokenizer_stream.decode(new_token): the token is decoded again
Yield(r) ==
    /\ pc[r] = "GENERATING"
    /\ new_token[r] # NoToken
    /\ LET d == StreamDecode(tokenizer_stream, new_token[r]) IN
          /\ tokenizer_stream' = d.rest
          /\ fragments' = [fragments EXCEPT ![r] = Append(@, d.out)]
    /\ new_token' = [new_token EXCEPT ![r] = NoToken]
    /\ UNCHANGED <<pc, prompt, input_tokens, generator, generated_text,
                   status, detail, err>>
    /\ UNCHANGED agentVars

\* the second decode raises
YieldFail(r) ==
    /\ pc[r] = "GENERATING"
    /\ new_token[r] # NoToken
    /\ \E e \in ErrorTexts : StreamAbort(r, e)
    /\ new_token' = [new_token EXCEPT ![r] = NoToken]
    /\ UNCHANGED <<tokenizer_stream, prompt, input_tokens, generator,
                   generated_text, fragments>>
    /\ UNCHANGED agentVars


(***************************************************************************)
(* create_agents                                                           *)
(***************************************************************************)
\* Largest number of runs of create_agents, and of agents the service holds
\* before the first run.
MaxRuns == 2
MaxPre == 1

specialist_agents == <<"cart_manager", "fashion_advisor", "content_moderator">>
AgentKeys == {"cart_manager", "fashion_advisor", "content_moderator", "main_orchestrator"}

NoAgents == [k \in AgentKeys |-> 0]

ServiceIds == {a.id : a \in service}

\* The ids of a set in ascending and in descending order: the two orders in
\* which the service may list its agents.
RECURSIVE Ascending(_)
Ascending(S) ==
    IF S = {} THEN <<>>
    ELSE LET m == CHOOSE x \in S : \A y \in S : x <= y IN
         <<m>> \o Ascending(S \ {m})

RECURSIVE Reverse(_)
Reverse(s) == IF s = <<>> THEN <<>> ELSE Append(Reverse(Tail(s)), Head(s))

Range(s) == {s[i] : i \in 1..Len(s)}

AgentsInit ==
    /\ \E n \in 0..MaxPre :
          /\ service = {[id |-> i, name |-> "other", tools |-> <<>>] : i \in 1..n}
          /\ nextId = n + 1
    /\ apc = "idle"
    /\ runs = 0
    /\ existing_agents = <<>>
    /\ delIdx = 0
    /\ delLog = <<>>
    /\ delFailed = {}
    /\ listFailed = FALSE
    /\ created_agents = NoAgents
    /\ agent_ids = NoAgents
    /\ createLog = <<>>
    /\ abortCause = ""

\* create_agents() is entered with EXTERNAL_INVENTORY_URL empty: an error is
\* printed and the function returns before it builds a client
StartRunNoUrl ==
    /\ apc \in {"idle", "done", "aborted", "returned"}
    /\ runs < MaxRuns
    /\ runs' = runs + 1
    /\ apc' = "returned"
    /\ existing_agents' = <<>>
    /\ delIdx' = 0
    /\ delLog' = <<>>
    /\ delFailed' = {}
    /\ listFailed' = FALSE
    /\ created_agents' = NoAgents
    /\ agent_ids' = NoAgents
    /\ createLog' = <<>>
    /\ abortCause' = ""
    /\ UNCHANGED <<service, nextId>>
    /\ UNCHANGED predictVars

\* create_agents() is entered: agent_ids = {}, created_agents = {}
StartRun ==
    /\ apc \in {"idle", "done", "aborted", "returned"}
    /\ runs < MaxRuns
    /\ runs' = runs + 1
    /\ apc' = "list"
    /\ existing_agents' = <<>>
    /\ delIdx' = 0
    /\ delLog' = <<>>
    /\ delFailed' = {}
    /\ listFailed' = FALSE
    /\ created_agents' = NoAgents
    /\ agent_ids' = NoAgents
    /\ createLog' = <<>>
    /\ abortCause' = ""
    /\ UNCHANGED <<service, nextId>>
    /\ UNCHANGED predictVars

\* list_agents() answers with only part of the agents
ListFirstOnly(order) ==
    IF order = <<>> THEN <<>> ELSE <<Head(order)>>

\* for agent in existing_agents_pageable: existing_agents.append(agent)
ListAll(order) == order

ListAgents ==
    /\ apc = "list"
    /\ \E order \in {Ascending(ServiceIds), Reverse(Ascending(ServiceIds))} :
          existing_agents' = ListAll(order)
    /\ apc' = "cleanup"
    /\ UNCHANGED <<service, nextId, runs, delIdx, delLog, delFailed, listFailed,
                   created_agents, agent_ids, createLog, abortCause>>
    /\ UNCHANGED predictVars

\* list_agents() or a page of it raises: the outer except prints a warning
\* and the run goes on to creation with nothing deleted
ListAgentsFail ==
    /\ apc = "list"
    /\ listFailed' = TRUE
    /\ apc' = "config"
    /\ UNCHANGED <<service, nextId, runs, existing_agents, delIdx, delLog, delFailed,
                   created_agents, agent_ids, createLog, abortCause>>
    /\ UNCHANGED predictVars

\* agents_client.delete_agent(agent.id) succeeds
DeleteAgent ==
    /\ apc = "cleanup"
    /\ delIdx < Len(existing_agents)
    /\ delIdx' = delIdx + 1
    /\ delLog' = Append(delLog, existing_agents[delIdx + 1])
    /\ service' = {a \in service : a.id # existing_agents[delIdx + 1]}
    /\ UNCHANGED <<nextId, apc, runs, existing_agents, delFailed, listFailed,
                   created_agents, agent_ids, createLog, abortCause>>
    /\ UNCHANGED predictVars

\* a failed delete ends the run
DeleteRaises(id) ==
    /\ delFailed' = delFailed \cup {id}
    /\ apc' = "aborted"
    /\ abortCause' = "delete"
    /\ UNCHANGED delIdx

\* except Exception as e: print(...) ; the for loop goes on with the next agent
DeleteCaught(id) ==
    /\ delFailed' = delFailed \cup {id}
    /\ delIdx' = delIdx + 1
    /\ UNCHANGED <<apc, abortCause>>

\* agents_client.delete_agent(agent.id) raises
DeleteAgentFail ==
    /\ apc = "cleanup"
    /\ delIdx < Len(existing_agents)
    /\ delLog' = Append(delLog, existing_agents[delIdx + 1])
    /\ DeleteCaught(existing_agents[delIdx + 1])
    /\ UNCHANGED <<service, nextId, runs, existing_agents, listFailed,
                   created_agents, agent_ids, createLog>>
    /\ UNCHANGED predictVars

\* the for loop over existing_agents is exhausted (or the list was empty)
CleanupDone ==
    /\ apc = "cleanup"
    /\ delIdx = Len(existing_agents)
    /\ apc' = "config"
    /\ UNCHANGED <<service, nextId, runs, existing_agents, delIdx, delLog, delFailed,
                   listFailed, created_agents, agent_ids, createLog, abortCause>>
    /\ UNCHANGED predictVars

\* agents_config = get_agents_config(...): swagger.json loaded and patched
LoadConfig ==
    /\ apc = "config"
    /\ apc' = "specialists"
    /\ UNCHANGED <<service, nextId, runs, existing_agents, delIdx, delLog, delFailed,
                   listFailed, created_agents, agent_ids, createLog, abortCause>>
    /\ UNCHANGED predictVars

\* swagger.json is loaded, and found missing or unparseable, before the
\* existing agents are listed
LoadConfigFailFirst ==
    /\ apc = "list"
    /\ apc' = "aborted"
    /\ abortCause' = "swagger"
    /\ UNCHANGED <<service, nextId, runs, existing_agents, delIdx, delLog, delFailed,
                   listFailed, created_agents, agent_ids, createLog>>
    /\ UNCHANGED predictVars

\* load_and_patch_swagger_spec re-raises FileNotFoundError / JSONDecodeError
LoadConfigFail ==
    /\ apc = "config"
    /\ apc' = "aborted"
    /\ abortCause' = "swagger"
    /\ UNCHANGED <<service, nextId, runs, existing_agents, delIdx, delLog, delFailed,
                   listFailed, created_agents, agent_ids, createLog>>
    /\ UNCHANGED predictVars

\* The key the specialist loop is at: one create per key, in list order
NextSpecialist ==
    specialist_agents[Cardinality({k \in Range(specialist_agents) :
                                      created_agents[k] # 0}) + 1]

\* agents_client.create_agent(...) for a specialist succeeds
CreateSpecialist ==
    /\ apc = "specialists"
    /\ LET key == NextSpecialist IN
          /\ service' = service \cup {[id |-> nextId, name |-> key, tools |-> <<>>]}
          /\ created_agents' = [created_agents EXCEPT ![key] = nextId]
          /\ agent_ids' = [agent_ids EXCEPT ![key] = nextId]
          /\ createLog' = Append(createLog, [key |-> key, ok |-> TRUE, id |-> nextId])
    /\ nextId' = nextId + 1
    /\ apc' = IF NextSpecialist = specialist_agents[Len(specialist_agents)]
              THEN "orchestrator" ELSE "specialists"
    /\ UNCHANGED <<runs, existing_agents, delIdx, delLog, delFailed, listFailed, abortCause>>
    /\ UNCHANGED predictVars

\* a failed create is logged and the loop tries the same agent again
CreateRetried ==
    /\ Len(createLog) < 2 * Len(specialist_agents)
    /\ UNCHANGED <<apc, abortCause>>

\* except Exception as e: print(...); raise
CreateRaises ==
    /\ apc' = "aborted"
    /\ abortCause' = "create"

\* agents_client.create_agent(...) for a specialist raises
CreateSpecialistFail ==
    /\ apc = "specialists"
    /\ createLog' = Append(createLog, [key |-> NextSpecialist, ok |-> FALSE, id |-> 0])
    /\ CreateRaises
    /\ UNCHANGED <<service, nextId, runs, existing_agents, delIdx, delLog, delFailed,
                   listFailed, created_agents, agent_ids>>
    /\ UNCHANGED predictVars

\* the fashion connection is built from the cart agent a second time
ConnectedCartTwice ==
    <<created_agents["cart_manager"], created_agents["cart_manager"],
      created_agents["content_moderator"]>>

\* ConnectedAgentTool(id=created_agents[...].id) for cart, fashion, moderator
ConnectedAgentTools ==
    <<created_agents["cart_manager"], created_agents["fashion_advisor"],
      created_agents["content_moderator"]>>

\* agents_client.create_agent(..., tools=all_tools) for the orchestrator
CreateOrchestrator ==
    /\ apc = "orchestrator"
    /\ service' = service \cup {[id |-> nextId, name |-> "main_orchestrator",
                                 tools |-> ConnectedAgentTools]}
    /\ agent_ids' = [agent_ids EXCEPT !["main_orchestrator"] = nextId]
    /\ createLog' = Append(createLog,
                           [key |-> "main_orchestrator", ok |-> TRUE, id |-> nextId])
    /\ nextId' = nextId + 1
    /\ apc' = "done"
    /\ UNCHANGED <<runs, existing_agents, delIdx, delLog, delFailed, listFailed,
                   created_agents, abortCause>>
    /\ UNCHANGED predictVars

\* the orchestrator's create_agent raises: printed and re-raised
CreateOrchestratorFail ==
    /\ apc = "orchestrator"
    /\ createLog' = Append(createLog,
                           [key |-> "main_orchestrator", ok |-> FALSE, id |-> 0])
    /\ apc' = "aborted"
    /\ abortCause' = "create"
    /\ UNCHANGED <<service, nextId, runs, existing_agents, delIdx, delLog, delFailed,
                   listFailed, created_agents, agent_ids>>
    /\ UNCHANGED predictVars

(***************************************************************************)
(* Specifications                                                          *)
(***************************************************************************)
Init == PredictInit /\ AgentsInit

\* The endpoint serves with the provisioning script idle; the agents the
\* service holds play no part in predict.
InitServing == Init /\ service = {}

Next ==
    \E r \in Requests :
        \/ BuildPrompt(r)
        \/ Encode(r)
        \/ EncodeFail(r)
        \/ StartStream(r)
        \/ SetupFail(r)
        \/ Finish(r)
        \/ Generate(r)
        \/ GenerateFail(r)
        \/ DecodeFail(r)
        \/ Yield(r)
        \/ YieldFail(r)

Spec == InitServing /\ [][Next]_vars

AgentsNext ==
    \/ StartRun
    \/ StartRunNoUrl
    \/ ListAgents
    \/ ListAgentsFail
    \/ DeleteAgent
    \/ DeleteAgentFail
    \/ CleanupDone
    \/ LoadConfig
    \/ LoadConfigFail
    \/ CreateSpecialist
    \/ CreateSpecialistFail
    \/ CreateOrchestrator
    \/ CreateOrchestratorFail

SpecAgents == Init /\ [][AgentsNext]_vars


(***************************************************************************)
(* Properties of predict (checked under Spec)                              *)
(***************************************************************************)
Others(r) == Requests \ {r}

RanAlone(r) == \A q \in Others(r) : pc[q] = "RECEIVED"

\* The fragments token_generator yields for toks when no other request
\* touches the decoder, starting from the decoder state `state`.
RECURSIVE AloneFrom(_, _)
AloneFrom(state, toks) ==
    IF toks = <<>> THEN <<>>
    ELSE LET d1 == StreamDecode(state, Head(toks))
             d2 == StreamDecode(d1.rest, Head(toks)) IN
         <<d2.out>> \o AloneFrom(d2.rest, Tail(toks))

\* A token sequence whose bytes are whole characters: every lead byte is
\* followed at once by its continuation byte, and no continuation byte
\* stands alone.
WellFormed(toks) ==
    \A i \in 1..Len(toks) :
        /\ toks[i] = "L" => (i < Len(toks) /\ toks[i + 1] = "C")
        /\ toks[i] = "C" => (i > 1 /\ toks[i - 1] = "L")

\* C1: for a completed request, the concatenation of the yielded fragments
\* equals the one-pass decode of the generated tokens by a fresh stream
\* decoder. Stated for the claim's weakest case: a request that ran with
\* no other request under way and generated only whole characters.
C1_StreamEqualsOnePass ==
    \A r \in Requests :
        (pc[r] = "COMPLETED" /\ RanAlone(r) /\ WellFormed(generator[r].out))
            => Concat(fragments[r]) = OnePass(generator[r].out)

\* C2: whatever the interleaving, a completed request's fragment sequence is
\* the one it yields when it runs alone on the decoder as it is at startup.
C2_FragmentsAsIfAlone ==
    \A r \in Requests :
        pc[r] = "COMPLETED"
            => fragments[r] = AloneFrom(<<>>, generator[r].out)

\* C3: a request whose tokenizer.encode or generator set-up failed answers
\* 500 with the error's text as detail, and has no fragment streamed.
C3_SetupFailureIs500 ==
    \A r \in Requests :
        err[r].at \in {"encode", "setup"}
            => /\ pc[r] = "FAILED"
               /\ status[r] = 500
               /\ detail[r] = err[r].text
               /\ fragments[r] = <<>>

\* C3 witness: encode failed for one request while another one has streamed.
C3_Witness ==
    \E r \in Requests :
        /\ err[r].at = "encode"
        /\ status[r] = 500
        /\ detail[r] = "tokenizer failure"
        /\ \E q \in Others(r) : fragments[q] # <<>>

\* C4: a failure inside the generation loop while no fragment has been
\* streamed is answered 500 with the error's text as detail.
C4_EarlyLoopFailureIs500 ==
    \A r \in Requests :
        (err[r].at = "loop" /\ fragments[r] = <<>>)
            => (status[r] = 500 /\ detail[r] = err[r].text)

\* C5 (as claimed): for every request that has ended, completed or failed, as
\* many fragments were yielded as tokens were generated, and the total
\* length is at most max_length.
C5_FragmentsEqualTokens ==
    \A r \in Requests :
        pc[r] \in {"COMPLETED", "FAILED"}
            => /\ Len(fragments[r]) = Len(generator[r].out)
               /\ generator[r].len <= max_length

\* C5 (amended): the total length never exceeds max_length, so at most
\* max_length tokens are generated; a request that completed, or stands
\* between two iterations, has yielded one fragment per generated token; a
\* request cut by a failure has yielded as many fragments or one fewer.
C5_FragmentsTrackTokens ==
    \A r \in Requests :
        /\ generator[r].len <= max_length
        /\ Len(generator[r].out) <= max_length
        /\ pc[r] \in {"GENERATING", "COMPLETED"}
              => generator[r].len = input_tokens[r] + Len(generator[r].out)
        /\ (pc[r] = "COMPLETED" \/ (pc[r] = "GENERATING" /\ new_token[r] = NoToken))
              => Len(fragments[r]) = Len(generator[r].out)
        /\ Len(fragments[r]) <= Len(generator[r].out)
        /\ Len(generator[r].out) <= Len(fragments[r]) + 1

\* C5 witness: a request completed by reaching max_length, one fragment per
\* token.
C5_Witness ==
    \E r \in Requests :
        /\ pc[r] = "COMPLETED"
        /\ generator[r].len = max_length
        /\ Len(fragments[r]) = MaxNew
        /\ "eos" \notin Range(generator[r].out)

Edges ==
    { <<"RECEIVED", "PROMPT_BUILT">>, <<"PROMPT_BUILT", "TOKENIZED">>,
      <<"TOKENIZED", "GENERATING">>, <<"GENERATING", "COMPLETED">>,
      <<"PROMPT_BUILT", "FAILED">>, <<"TOKENIZED", "FAILED">>,
      <<"GENERATING", "FAILED">> }

RequestState(r) ==
    <<pc[r], prompt[r], input_tokens[r], generator[r], new_token[r],
      generated_text[r], fragments[r], status[r], detail[r], err[r]>>

\* C10: a request moves only along RECEIVED -> PROMPT_BUILT -> TOKENIZED ->
\* GENERATING -> COMPLETED, or from a state after RECEIVED to FAILED;
\* GENERATING is entered only with the prompt built and tokenized; fragments
\* are emitted only in GENERATING; a COMPLETED or FAILED request takes no
\* further step.
C10_OneTraversal ==
    [][\A r \in Requests :
          /\ pc'[r] # pc[r] => <<pc[r], pc'[r]>> \in Edges
          /\ pc'[r] = "GENERATING" => (prompt'[r] /\ input_tokens'[r] > 0)
          /\ fragments'[r] # fragments[r]
                => (pc[r] = "GENERATING" /\ pc'[r] = "GENERATING")
          /\ pc[r] \in {"COMPLETED", "FAILED"}
                => RequestState(r)' = RequestState(r)]_vars

\* C10 witness: one request completed after streaming, another one failed.
C10_Witness ==
    \E r \in Requests :
        /\ pc[r] = "COMPLETED"
        /\ fragments[r] # <<>>
        /\ \E q \in Others(r) : pc[q] = "FAILED"

(***************************************************************************)
(* Properties of create_agents (checked under SpecAgents)                  *)
(***************************************************************************)
PastCleanup == apc \in {"config", "specialists", "orchestrator", "done", "aborted"}

CreatedIds == {createLog[i].id : i \in {j \in 1..Len(createLog) : createLog[j].ok}}

\* C6 (as claimed): after a run of create_agents that created its agents,
\* exactly four agents exist.
C6_FourAgentsAfterRun ==
    apc = "done" => Cardinality(service) = 4

\* C6 (amended): no create_agent call of a run is made before every listed
\* agent had its delete attempt; and after a run in which list_agents, every
\* delete and all four creates succeeded, the agents existing are exactly
\* the four that run created.
C6_FourAgentsAfterCleanRun ==
    /\ createLog # <<>> => (listFailed \/ delLog = existing_agents)
    /\ (apc = "done" /\ ~listFailed /\ delFailed = {})
          => (Cardinality(service) = 4 /\ ServiceIds = CreatedIds)

\* C6 witness: a second run ended with the four agents of the first run
\* deleted and four new ones created.
C6_Witness ==
    /\ runs = 2
    /\ apc = "done"
    /\ ~listFailed
    /\ delFailed = {}
    /\ Len(existing_agents) >= 4
    /\ Cardinality(service) = 4

\* C7: the orchestrator's create is the fourth create call of its run, after
\* the successful creates of cart_manager, fashion_advisor and
\* content_moderator in that order; the orchestrator created has one
\* connected-agent tool for each of the three ids those creates returned.
C7_OrchestratorAfterSpecialists ==
    /\ \A i \in 1..Len(createLog) :
          createLog[i].key = "main_orchestrator"
             => /\ i = 4
                /\ \A j \in 1..3 : /\ createLog[j].key = specialist_agents[j]
                                   /\ createLog[j].ok
    /\ apc = "done"
          => \E a \in service :
                /\ a.id = agent_ids["main_orchestrator"]
                /\ a.name = "main_orchestrator"
                /\ Len(a.tools) = 3
                /\ Range(a.tools) = {createLog[j].id : j \in 1..3}

\* C7 witness: a second run created its orchestrator.
C7_Witness ==
    /\ runs = 2
    /\ apc = "done"
    /\ Len(createLog) = 4
    /\ agent_ids["main_orchestrator"] = createLog[4].id

\* C8: a failed create_agent call is the last call of its run and the run
\* has raised; no agent gets two create calls in a run; the agents a run
\* created stay in the service.
C8_FailFast ==
    /\ \A i \in 1..Len(createLog) :
          ~createLog[i].ok => (i = Len(createLog) /\ apc = "aborted")
    /\ \A i, j \in 1..Len(createLog) :
          createLog[i].key = createLog[j].key => i = j
    /\ CreatedIds \subseteq ServiceIds

\* C8 witness: a run aborted by the failure of its second create, the first
\* agent still in the service.
C8_Witness ==
    /\ apc = "aborted"
    /\ abortCause = "create"
    /\ Len(createLog) = 2
    /\ createLog[1].ok
    /\ ~createLog[2].ok
    /\ createLog[1].id \in ServiceIds

\* C9: during cleanup the delete calls made are those of the listed agents
\* visited so far; once past cleanup (list_agents having succeeded) every
\* listed agent had exactly one delete call, whichever deletes failed; and no
\* run is ever aborted by a failed delete.
C9_CleanupBestEffort ==
    /\ delLog = SubSeq(existing_agents, 1, delIdx)
    /\ delFailed \subseteq Range(delLog)
    /\ (PastCleanup /\ ~listFailed) => delLog = existing_agents
    /\ apc = "aborted" => abortCause \in {"swagger", "create"}
    /\ abortCause # "delete"

\* C9 witness: the first delete failed, a later one was still made, and the
\* run went on to create agents.
C9_Witness ==
    /\ apc = "specialists"
    /\ Len(existing_agents) >= 2
    /\ existing_agents[1] \in delFailed
    /\ existing_agents[2] \notin delFailed
    /\ Len(delLog) = Len(existing_agents)
    /\ createLog # <<>>

\* The agents the service held when the run began, as long as the run has
\* created none: those listed and those still held.
PreExisting == ServiceIds \cup Range(existing_agents)

\* C11 (as claimed): when loading swagger.json failed, the run made no
\* create_agent call, every agent that existed before the run has had its
\* delete attempt, and the service holds none of the four agents.
C11_SwaggerFailureAfterFullCleanup ==
    abortCause = "swagger"
        => /\ createLog = <<>>
           /\ PreExisting \subseteq Range(delLog)
           /\ \A a \in service : a.name \notin AgentKeys

\* C11 (amended): swagger.json is loaded only once the cleanup pass is over;
\* when loading it failed the run has raised with no create_agent call made
\* and with one delete attempt for every agent list_agents returned (none
\* when list_agents itself raised); the service then holds exactly the
\* agents that were not listed or whose delete failed, so it is empty when
\* the list and every delete succeeded.
C11_SwaggerFailureAfterCleanupPass ==
    /\ apc \in {"idle", "returned", "list", "cleanup", "config"} => abortCause = ""
    /\ abortCause = "swagger"
          => /\ apc = "aborted"
             /\ createLog = <<>>
             /\ delLog = existing_agents
             /\ listFailed => existing_agents = <<>>
             /\ ServiceIds \cap Range(delLog) = delFailed
             /\ (~listFailed /\ delFailed = {}) => service = {}

\* C11 witness: a second run deleted the four agents of the first run and
\* then failed to load swagger.json, leaving the service empty.
C11_Witness ==
    /\ runs = 2
    /\ abortCause = "swagger"
    /\ ~listFailed
    /\ delFailed = {}
    /\ Len(delLog) >= 4
    /\ createLog = <<>>
    /\ service = {}

=============================================================================
